---- MODULE Spec2Model ----
(***************************************************************************)
(* The room-navigation agent (BaselinePurpleAgent), its two entry points   *)
(* (BaselinePurpleAgent.run and PurpleExecutor.execute) and the puzzle     *)
(* host that prompts it.  A prompt is modelled by the fields the agent's   *)
(* regular expressions extract from it; a list field is absent, malformed  *)
(* (ast.literal_eval raises ValueError/SyntaxError) or a list of integers  *)
(* of any length.  Python lists are sequences (room i is element i+1); an  *)
(* IndexError is modelled as a fault that ends the turn where it occurs,   *)
(* keeping what was assigned before it.                                    *)
(***************************************************************************)
EXTENDS Integers, Sequences, FiniteSets, TLC

\* ------------------------------------------------------------ constants

\* the hard-coded room count: [..] * 8 and range(8)
NumRooms == 8

\* Python's None for Optional[int] fields and for a failed _parse_int
None == -1

\* first_lock_idx = 999
NoLockIdx == 999

Rooms == 0 .. (NumRooms - 1)

\* [v] * 8
Fill(v) == [i \in 1 .. NumRooms |-> v]

Min2(a, b) == IF a < b THEN a ELSE b

\* ------------------------------------------------------------ Python lists

\* i is a valid index of list l (0-based, non-negative)
InRange(l, i) == i >= 0 /\ i < Len(l)

\* l[i], 0-based
At(l, i) == l[i + 1]

\* the ascending enumeration of a finite set of integers, as a sequence
RECURSIVE SortedSeq(_)
SortedSeq(S) ==
    IF S = {} THEN << >>
    ELSE LET m == CHOOSE x \in S : \A y \in S : x <= y
         IN  << m >> \o SortedSeq(S \ {m})

\* list.index(x): the 0-based position of the first x in l, or None (ValueError)
IndexOf(l, x) ==
    IF \E k \in 1 .. Len(l) : l[k] = x
    THEN (CHOOSE k \in 1 .. Len(l) : l[k] = x /\ \A j \in 1 .. (k - 1) : l[j] # x) - 1
    ELSE None

\* the value enumerate() leaves in the variable assigned under `if val == 1`:
\* the index of the LAST 1 of the list (the loop has no break), or old if none
LastOne(l, old) ==
    IF \E k \in 1 .. Len(l) : l[k] = 1
    THEN (CHOOSE k \in 1 .. Len(l) : l[k] = 1 /\ \A j \in (k + 1) .. Len(l) : l[j] # 1) - 1
    ELSE old

\* ------------------------------------------------------------ actions (dicts)

Move(t) == [command |-> "MOVE", target_room |-> t]
GetKey == [command |-> "GETKEY"]
UseKey == [command |-> "USEKEY"]
Inspect == [command |-> "INSPECT"]
Commit == [command |-> "COMMIT"]
\* no dict: the call raised
NoAction == [raised |-> TRUE]

\* ------------------------------------------------------------ reset

\* the attributes BaselinePurpleAgent.reset assigns, with their values.  adj is
\* the set of pairs <<a, b>> with b in adj[a]; obs_parent the set of
\* <<child, parent>>.
ResetValues ==
    [ adj            |-> {},
      room_locked    |-> Fill(-1),
      room_haskey    |-> Fill(-1),
      room_exit      |-> Fill(-1),
      room_visited   |-> Fill(0),
      room_inspected |-> Fill(0),
      current_room   |-> 0,
      obs_visited    |-> {0},
      obs_frontier   |-> << >>,
      obs_parent     |-> {<< 0, None >>},
      exit_room      |-> None,
      known_key_room |-> None,
      path_to_exit   |-> << >>,
      path_index     |-> 0,
      has_committed  |-> FALSE,
      pending_getkey |-> FALSE,
      pending_usekey |-> FALSE ]

\* reset that leaves the commitment of the previous episode in place
Reset_KeepsCommitted(s) ==
    [f \in DOMAIN s |->
        IF f \in DOMAIN ResetValues \ {"has_committed"} THEN ResetValues[f] ELSE s[f]]

\* reset that leaves the discovered graph in place
Reset_KeepsGraph(s) ==
    [f \in DOMAIN s |-> IF f \in DOMAIN ResetValues \ {"adj"} THEN ResetValues[f] ELSE s[f]]

\* reset that leaves the exploration visited-set empty
Reset_NoStart(s) ==
    [f \in DOMAIN s |->
        IF f = "obs_visited" THEN {}
        ELSE IF f \in DOMAIN ResetValues THEN ResetValues[f] ELSE s[f]]

\* BaselinePurpleAgent.reset on the object s: every attribute it assigns is
\* overwritten, any other attribute of s is left as it is
Reset(s) ==
    [f \in DOMAIN s |-> IF f \in DOMAIN ResetValues THEN ResetValues[f] ELSE s[f]]

\* BaselinePurpleAgent.__init__: a new object, whose attributes are those that
\* reset assigns
NewAgent == ResetValues

\* ------------------------------------------------------------ parsing

\* the words a Phase: field may carry, as the characters \w+ captures
PhaseText(w) ==
    CASE w = "Execution"      -> << "E", "x", "e", "c", "u", "t", "i", "o", "n" >>
      [] w = "Observation"    -> << "O", "b", "s", "e", "r", "v", "a", "t", "i", "o", "n" >>
      [] w = "PreExecution"   -> << "P", "r", "e", "E", "x", "e", "c", "u", "t", "i", "o", "n" >>
      [] w = "execution"      -> << "e", "x", "e", "c", "u", "t", "i", "o", "n" >>
      [] OTHER                -> << >>

\* Python's `sub in text`
Contains(text, sub) ==
    \E i \in 0 .. (Len(text) - Len(sub)) : SubSeq(text, i + 1, i + Len(sub)) = sub

\* phase_match and "Execution" in phase_match.group(1); the word "None" stands
\* for a prompt without a Phase: field
PhaseCommits(w) == w # "None" /\ Contains(PhaseText(w), PhaseText("Execution"))

\* a list field of a prompt
Absent == [kind |-> "absent", val |-> << >>]
Malformed == [kind |-> "malformed", val |-> << >>]
ListField(l) == [kind |-> "list", val |-> l]

\* _parse_list: the list, or None for an absent label and for a literal that
\* ast.literal_eval rejects; the length is not looked at
ParseList(f) == [some |-> f.kind = "list", val |-> f.val]

\* an integer field of a prompt: what follows the label
NoInt == [kind |-> "absent", val |-> 0]
Digits(n) == [kind |-> "digits", val |-> n]
\* "Current Room: -3": \s*(\d+) does not match at the sign
Negative(n) == [kind |-> "negative", val |-> n]

\* _parse_int: the integer the digits after the label spell, or None
ParseInt(f) == IF f.kind = "digits" THEN f.val ELSE None

\* _sync_state with the committed flag following the phase of each prompt
SyncState_PhaseTracks(s, p) ==
    LET current == ParseInt(p.room)
        visited == ParseList(p.visited)
        inspected == ParseList(p.inspected)
        locked == ParseList(p.locked)
        haskey == ParseList(p.haskey)
        exit_list == ParseList(p.exit)
    IN  [ s EXCEPT
            !.current_room   = IF current # None THEN current ELSE @,
            !.room_visited   = IF visited.some THEN visited.val ELSE @,
            !.room_inspected = IF inspected.some THEN inspected.val ELSE @,
            !.room_locked    = IF locked.some THEN locked.val ELSE @,
            !.room_haskey    = IF haskey.some THEN haskey.val ELSE @,
            !.known_key_room = IF haskey.some THEN LastOne(haskey.val, @) ELSE @,
            !.room_exit      = IF exit_list.some THEN exit_list.val ELSE @,
            !.exit_room      = IF exit_list.some THEN LastOne(exit_list.val, @) ELSE @,
            !.has_committed  = PhaseCommits(p.phase) ]

\* _sync_state with the locked vector set back to unknown when the prompt has
\* no Locked: field
SyncState_ForgetsLocked(s, p) ==
    LET current == ParseInt(p.room)
        visited == ParseList(p.visited)
        inspected == ParseList(p.inspected)
        locked == ParseList(p.locked)
        haskey == ParseList(p.haskey)
        exit_list == ParseList(p.exit)
    IN  [ s EXCEPT
            !.current_room   = IF current # None THEN current ELSE @,
            !.room_visited   = IF visited.some THEN visited.val ELSE @,
            !.room_inspected = IF inspected.some THEN inspected.val ELSE @,
            !.room_locked    = IF locked.some THEN locked.val ELSE Fill(-1),
            !.room_haskey    = IF haskey.some THEN haskey.val ELSE @,
            !.known_key_room = IF haskey.some THEN LastOne(haskey.val, @) ELSE @,
            !.room_exit      = IF exit_list.some THEN exit_list.val ELSE @,
            !.exit_room      = IF exit_list.some THEN LastOne(exit_list.val, @) ELSE @,
            !.has_committed  = IF PhaseCommits(p.phase) THEN TRUE ELSE @ ]

\* _sync_state
SyncState(s, p) ==
    LET current == ParseInt(p.room)
        visited == ParseList(p.visited)
        inspected == ParseList(p.inspected)
        locked == ParseList(p.locked)
        haskey == ParseList(p.haskey)
        exit_list == ParseList(p.exit)
    IN  [ s EXCEPT
            !.current_room   = IF current # None THEN current ELSE @,
            !.room_visited   = IF visited.some THEN visited.val ELSE @,
            !.room_inspected = IF inspected.some THEN inspected.val ELSE @,
            !.room_locked    = IF locked.some THEN locked.val ELSE @,
            !.room_haskey    = IF haskey.some THEN haskey.val ELSE @,
            !.known_key_room = IF haskey.some THEN LastOne(haskey.val, @) ELSE @,
            !.room_exit      = IF exit_list.some THEN exit_list.val ELSE @,
            !.exit_room      = IF exit_list.some THEN LastOne(exit_list.val, @) ELSE @,
            !.has_committed  = IF PhaseCommits(p.phase) THEN TRUE ELSE @ ]

\* ------------------------------------------------------------ path planner

\* self.adj.get(node, set())
Neighbors(adj, node) == {e[2] : e \in {d \in adj : d[1] = node}}

\* the loop of _bfs_path with the newly found rooms put at the head of the
\* queue (depth first)
RECURSIVE BfsLoop_DepthFirst(_, _, _, _)
BfsLoop_DepthFirst(adj, target, queue, visited) ==
    IF queue = << >> THEN << >>
    ELSE LET node == Head(queue)[1]
             path == Head(queue)[2]
         IN  IF node = target THEN path
             ELSE LET fresh == SortedSeq(Neighbors(adj, node) \ visited)
                      more == [k \in 1 .. Len(fresh) |->
                                  << fresh[k], Append(path, fresh[k]) >>]
                  IN  BfsLoop_DepthFirst(adj, target, more \o Tail(queue),
                                         visited \cup Neighbors(adj, node))

\* the while loop of _bfs_path; the queue holds (node, path) pairs.  A set of
\* small non-negative integers is iterated in ascending order (CPython).
RECURSIVE BfsLoop(_, _, _, _)
BfsLoop(adj, target, queue, visited) ==
    IF queue = << >> THEN << >>
    ELSE LET node == Head(queue)[1]
             path == Head(queue)[2]
         IN  IF node = target THEN path
             ELSE LET fresh == SortedSeq(Neighbors(adj, node) \ visited)
                      more == [k \in 1 .. Len(fresh) |->
                                  << fresh[k], Append(path, fresh[k]) >>]
                  IN  BfsLoop(adj, target, Tail(queue) \o more,
                              visited \cup Neighbors(adj, node))

\* _bfs_path
BfsPath(adj, start, target) ==
    IF start = target THEN << start >>
    ELSE BfsLoop(adj, target, << << start, << start >> >> >>, {start})

\* every room of the path indexes the list (no IndexError in a comprehension)
AllInRange(path, l) == \A k \in 1 .. Len(path) : InRange(l, path[k])

\* [r for r in path if l[r] == 1]
OnesOnPath(path, l) == SelectSeq(path, LAMBDA r : At(l, r) = 1)

\* the smallest position on path_direct of a room of locks_on_path, or 999
FirstLockIdx(path_direct, locks_on_path) ==
    IF locks_on_path = << >> THEN NoLockIdx
    ELSE CHOOSE m \in {IndexOf(path_direct, locks_on_path[k]) : k \in 1 .. Len(locks_on_path)} :
             \A k \in 1 .. Len(locks_on_path) : m <= IndexOf(path_direct, locks_on_path[k])

\* _plan_solution with the key room kept twice at the join of the detour
PlanSolution_JoinKept(s) ==
    IF s.exit_room = None THEN [s |-> [s EXCEPT !.path_to_exit = << >>], ok |-> TRUE]
    ELSE
    LET path_direct == BfsPath(s.adj, 0, s.exit_room) IN
    IF path_direct = << >> THEN [s |-> [s EXCEPT !.path_to_exit = << >>], ok |-> TRUE]
    ELSE IF ~AllInRange(path_direct, s.room_locked) THEN [s |-> s, ok |-> FALSE]
    ELSE
    LET locks_on_path == OnesOnPath(path_direct, s.room_locked)
        key_needed == Len(locks_on_path) > 0
        have_key_on_path ==
            /\ s.known_key_room # None
            /\ IndexOf(path_direct, s.known_key_room) # None
            /\ IndexOf(path_direct, s.known_key_room) < FirstLockIdx(path_direct, locks_on_path)
        path_to_key == BfsPath(s.adj, 0, s.known_key_room)
        path_from_key == BfsPath(s.adj, s.known_key_room, s.exit_room)
    IN  IF /\ key_needed /\ ~have_key_on_path /\ s.known_key_room # None
           /\ path_to_key # << >> /\ path_from_key # << >>
        THEN [s |-> [s EXCEPT !.path_to_exit = path_to_key \o path_from_key], ok |-> TRUE]
        ELSE [s |-> [s EXCEPT !.path_to_exit = path_direct], ok |-> TRUE]

\* _plan_solution: [s |-> the agent after it, ok |-> no IndexError was raised]
PlanSolution(s) ==
    IF s.exit_room = None THEN [s |-> [s EXCEPT !.path_to_exit = << >>], ok |-> TRUE]
    ELSE
    LET path_direct == BfsPath(s.adj, 0, s.exit_room) IN
    IF path_direct = << >> THEN [s |-> [s EXCEPT !.path_to_exit = << >>], ok |-> TRUE]
    ELSE IF ~AllInRange(path_direct, s.room_locked) THEN [s |-> s, ok |-> FALSE]
    ELSE
    LET locks_on_path == OnesOnPath(path_direct, s.room_locked)
        key_needed == Len(locks_on_path) > 0
        have_key_on_path ==
            /\ s.known_key_room # None
            /\ IndexOf(path_direct, s.known_key_room) # None
            /\ IndexOf(path_direct, s.known_key_room) < FirstLockIdx(path_direct, locks_on_path)
        path_to_key == BfsPath(s.adj, 0, s.known_key_room)
        path_from_key == BfsPath(s.adj, s.known_key_room, s.exit_room)
    IN  IF /\ key_needed /\ ~have_key_on_path /\ s.known_key_room # None
           /\ path_to_key # << >> /\ path_from_key # << >>
        THEN [s |-> [s EXCEPT !.path_to_exit = path_to_key \o Tail(path_from_key)], ok |-> TRUE]
        ELSE [s |-> [s EXCEPT !.path_to_exit = path_direct], ok |-> TRUE]

\* ------------------------------------------------------------ graph discovery

\* for candidate in range(8): if candidate not in self.obs_visited: append
Candidates(obs_visited) == SortedSeq(Rooms \ obs_visited)

\* the loop body of _record_new_neighbors with the edge entered under the
\* previous room only
AddNeighbor_OneWay(s, prev_room, i) ==
    LET s1 == [s EXCEPT !.adj = @ \cup {<< prev_room, i >>}]
    IN  IF i \in s1.obs_visited THEN s1
        ELSE [s1 EXCEPT !.obs_visited = @ \cup {i},
                        !.obs_parent = @ \cup {<< i, prev_room >>},
                        !.obs_frontier = @ \o Candidates(s1.obs_visited \cup {i})]

\* the loop body of _record_new_neighbors with adj assigned, not added to
AddNeighbor_Replaces(s, prev_room, i) ==
    LET s1 == [s EXCEPT !.adj = {<< prev_room, i >>, << i, prev_room >>}]
    IN  IF i \in s1.obs_visited THEN s1
        ELSE [s1 EXCEPT !.obs_visited = @ \cup {i},
                        !.obs_parent = @ \cup {<< i, prev_room >>},
                        !.obs_frontier = @ \o Candidates(s1.obs_visited \cup {i})]

\* the loop body of _record_new_neighbors for a room i that flipped 0 -> 1
AddNeighbor(s, prev_room, i) ==
    LET s1 == [s EXCEPT !.adj = @ \cup {<< prev_room, i >>, << i, prev_room >>}]
    IN  IF i \in s1.obs_visited THEN s1
        ELSE [s1 EXCEPT !.obs_visited = @ \cup {i},
                        !.obs_parent = @ \cup {<< i, prev_room >>},
                        !.obs_frontier = @ \o Candidates(s1.obs_visited \cup {i})]

\* for i in range(8), from i on: an IndexError leaves what rooms < i added
RECURSIVE RecordLoop(_, _, _, _)
RecordLoop(s, prev_room, prev_visited, i) ==
    IF i = NumRooms THEN [s |-> s, ok |-> TRUE]
    ELSE IF ~InRange(s.room_visited, i) THEN [s |-> s, ok |-> FALSE]
    ELSE IF At(s.room_visited, i) # 1 THEN RecordLoop(s, prev_room, prev_visited, i + 1)
    ELSE IF ~InRange(prev_visited, i) THEN [s |-> s, ok |-> FALSE]
    ELSE IF At(prev_visited, i) # 0 THEN RecordLoop(s, prev_room, prev_visited, i + 1)
    ELSE RecordLoop(AddNeighbor(s, prev_room, i), prev_room, prev_visited, i + 1)

\* _record_new_neighbors with the edges entered at the room the prompt reports
RecordNewNeighbors_FromCurrent(s, prev_room, prev_visited) ==
    RecordLoop(s, s.current_room, prev_visited, 0)

\* _record_new_neighbors
RecordNewNeighbors(s, prev_room, prev_visited) == RecordLoop(s, prev_room, prev_visited, 0)

\* any(a[i] != b[i] for i in range(8)), from i on: "true", "false", or "fault"
\* when an index is out of range before a difference is found
RECURSIVE AnyDiffers(_, _, _)
AnyDiffers(a, b, i) ==
    IF i = NumRooms THEN "false"
    ELSE IF ~InRange(a, i) \/ ~InRange(b, i) THEN "fault"
    ELSE IF At(a, i) # At(b, i) THEN "true"
    ELSE AnyDiffers(a, b, i + 1)

\* any(l[r] == 1 for r in path): "true", "false", or "fault"
RECURSIVE AnyOne(_, _)
AnyOne(path, l) ==
    IF path = << >> THEN "false"
    ELSE IF ~InRange(l, Head(path)) THEN "fault"
    ELSE IF At(l, Head(path)) = 1 THEN "true"
    ELSE AnyOne(Tail(path), l)

\* ------------------------------------------------------------ action selector

Raised(s) == [s |-> s, act |-> NoAction, ok |-> FALSE]
Returned(s, a) == [s |-> s, act |-> a, ok |-> TRUE]

\* the tail of _obs_action answering INSPECT where it may commit
ObsDecide_InspectsToCommit(s, can_commit) ==
    IF can_commit THEN Returned(s, Inspect)
    ELSE IF s.obs_frontier = << >>
    THEN LET planned == PlanSolution(s)
         IN  IF planned.ok THEN Returned(planned.s, Commit) ELSE Raised(planned.s)
    ELSE Returned([s EXCEPT !.obs_frontier = Tail(@)], Move(Head(s.obs_frontier)))

\* the tail of _obs_action, after can_commit is known
ObsDecide(s, can_commit) ==
    IF can_commit THEN Returned(s, Commit)
    ELSE IF s.obs_frontier = << >>
    THEN LET planned == PlanSolution(s)
         IN  IF planned.ok THEN Returned(planned.s, Commit) ELSE Raised(planned.s)
    ELSE Returned([s EXCEPT !.obs_frontier = Tail(@)], Move(Head(s.obs_frontier)))

\* _obs_action without the rule that a known key room allows the commit
ObsAction_KeyIgnored(s) ==
    IF s.exit_room = None THEN ObsDecide(s, FALSE)
    ELSE LET planned == PlanSolution(s)
             s1 == planned.s
             path_is_locked == AnyOne(s1.path_to_exit, s1.room_locked)
         IN  IF ~planned.ok \/ path_is_locked = "fault" THEN Raised(s1)
             ELSE ObsDecide(s1, \/ path_is_locked = "false"
                                \/ s1.obs_frontier = << >>)

\* _obs_action
ObsAction(s) ==
    IF s.exit_room = None THEN ObsDecide(s, FALSE)
    ELSE LET planned == PlanSolution(s)
             s1 == planned.s
             path_is_locked == AnyOne(s1.path_to_exit, s1.room_locked)
         IN  IF ~planned.ok \/ path_is_locked = "fault" THEN Raised(s1)
             ELSE ObsDecide(s1, \/ path_is_locked = "false"
                                \/ s1.known_key_room # None
                                \/ s1.obs_frontier = << >>)

\* ExecFollow with the route always read at the cursor, which never advances
ExecFollow_ByCursor(s) ==
    IF s.path_index + 1 < Len(s.path_to_exit)
    THEN Returned(s, Move(At(s.path_to_exit, s.path_index + 1)))
    ELSE Returned(s, Inspect)

\* ExecFollow without the length guards: an empty route raises IndexError
ExecFollow_NoGuard(s) ==
    IF s.path_index + 1 < Len(s.path_to_exit)
    THEN Returned(s, Move(At(s.path_to_exit, s.path_index + 1)))
    ELSE IF s.current_room = s.exit_room THEN Returned(s, Inspect)
    ELSE Raised(s)

\* the path-following part of _exec_action, after the key and lock checks
ExecFollow(s) ==
    LET n == Len(s.path_to_exit)
        curr_idx_in_path == IndexOf(s.path_to_exit, s.current_room)
    IN  IF s.path_index < n /\ curr_idx_in_path # None /\ curr_idx_in_path + 1 < n
        THEN Returned(s, Move(At(s.path_to_exit, curr_idx_in_path + 1)))
        ELSE IF s.path_index < n /\ s.path_index + 1 < n
        THEN Returned(s, Move(At(s.path_to_exit, s.path_index + 1)))
        ELSE IF s.current_room = s.exit_room /\ At(s.room_locked, s.current_room) = 1
        THEN Returned(s, UseKey)
        ELSE Returned(s, Inspect)

\* _exec_action with the route followed before the key is looked for
ExecAction_RouteFirst(s) ==
    IF s.pending_getkey THEN Returned([s EXCEPT !.pending_getkey = FALSE], GetKey)
    ELSE IF s.pending_usekey THEN Returned([s EXCEPT !.pending_usekey = FALSE], UseKey)
    ELSE IF ExecFollow(s).act # Inspect THEN ExecFollow(s)
    ELSE IF At(s.room_haskey, s.current_room) = 1 THEN Returned(s, GetKey)
    ELSE IF At(s.room_locked, s.current_room) = 1 THEN Returned(s, UseKey)
    ELSE Returned(s, Inspect)

\* _exec_action
ExecAction(s) ==
    IF s.pending_getkey THEN Returned([s EXCEPT !.pending_getkey = FALSE], GetKey)
    ELSE IF s.pending_usekey THEN Returned([s EXCEPT !.pending_usekey = FALSE], UseKey)
    ELSE IF ~InRange(s.room_haskey, s.current_room) THEN Raised(s)
    ELSE IF At(s.room_haskey, s.current_room) = 1 THEN Returned(s, GetKey)
    ELSE IF ~InRange(s.room_locked, s.current_room) THEN Raised(s)
    ELSE IF At(s.room_locked, s.current_room) = 1 THEN Returned(s, UseKey)
    ELSE ExecFollow(s)

\* the frontier seeded with range(1, 9)
SeedFrontier_OneTooMany(s) ==
    IF s.obs_frontier = << >> /\ Cardinality(s.obs_visited) = 1
    THEN [s EXCEPT !.obs_frontier = SortedSeq((Rooms \cup {NumRooms}) \ {0})]
    ELSE s

\* if not self.obs_frontier and len(self.obs_visited) == 1: seed with 1..7
SeedFrontier(s) ==
    IF s.obs_frontier = << >> /\ Cardinality(s.obs_visited) = 1
    THEN [s EXCEPT !.obs_frontier = SortedSeq(Rooms \ {0})]
    ELSE s

\* the Observation branch of select_action
SelectObs(s, prev_room, prev_visited) ==
    LET differs == IF s.current_room # prev_room THEN "true"
                   ELSE AnyDiffers(s.room_visited, prev_visited, 0)
        recorded == IF differs = "true"
                    THEN RecordNewNeighbors(s, prev_room, prev_visited)
                    ELSE [s |-> s, ok |-> TRUE]
    IN  IF differs = "fault" THEN Raised(s)
        ELSE IF ~recorded.ok THEN Raised(recorded.s)
        ELSE ObsAction(SeedFrontier(recorded.s))

\* the Execution branch of select_action
SelectExec(s) ==
    LET planned == IF s.path_to_exit = << >> /\ s.exit_room # None
                   THEN PlanSolution(s)
                   ELSE [s |-> s, ok |-> TRUE]
    IN  IF planned.ok THEN ExecAction(planned.s) ELSE Raised(planned.s)

\* select_action with the branch chosen by the committed flag as it was before
\* the prompt was parsed
SelectAction_PhaseBefore(s, p) ==
    LET synced == SyncState(s, p)
    IN  IF ~s.has_committed
        THEN SelectObs(synced, s.current_room, s.room_visited)
        ELSE SelectExec(synced)

\* select_action: [s |-> the agent after the turn, act |-> the dict returned,
\* ok |-> FALSE when an exception left the call]
SelectAction(s, p) ==
    LET synced == SyncState(s, p)
    IN  IF ~synced.has_committed
        THEN SelectObs(synced, s.current_room, s.room_visited)
        ELSE SelectExec(synced)

\* ------------------------------------------------------------ entry points

\* the sessions PurpleExecutor.agents may hold; Main is the one a test or a
\* standalone BaselinePurpleAgent stands for
Contexts == {"c1", "c2"}
Main == "c1"
\* self.agents.get(context_id) of a context never seen
NoAgent == [absent |-> TRUE]

\* what a turn hands back to its caller
\* (fault records whether select_action raised during the turn)
NoResponse == [status |-> "none", action |-> NoAction, fault |-> FALSE]
Response(status, a, fault) == [status |-> status, action |-> a, fault |-> fault]

\* BaselinePurpleAgent.run: reset on the "(Move 0)" marker, select, and
\* json.dumps({"command": "INSPECT"}) when select_action raised
Run(s, p) ==
    LET r == SelectAction(IF p.move0 THEN Reset(s) ELSE s, p)
    IN  [s |-> r.s, resp |-> Response("completed", IF r.ok THEN r.act ELSE Inspect, ~r.ok)]

\* PurpleExecutor.execute, for a message and a task that is not terminal: the
\* agent of the context is created on first contact; updater.complete carries
\* the action, updater.failed ("Agent error: ...") carries none
Execute(a, p) ==
    LET r == SelectAction(IF a = NoAgent THEN NewAgent ELSE a, p)
    IN  [s |-> r.s, resp |-> IF r.ok THEN Response("completed", r.act, FALSE)
                                     ELSE Response("failed", NoAction, TRUE)]

\* ------------------------------------------------------------ the puzzle host

\* the indicator list of a set of rooms: [1, 1, 0, ...]
Indicator(S) == [i \in 1 .. NumRooms |-> IF (i - 1) \in S THEN 1 ELSE 0]

\* a property list: 1/0 for the rooms the host reports, -1 for the others
Flags(S, known) ==
    [i \in 1 .. NumRooms |-> IF (i - 1) \notin known THEN -1
                             ELSE IF (i - 1) \in S THEN 1 ELSE 0]

\* the prompt of make_prompt for the host's state h in world w
HostPrompt(w, h, word, first) ==
    LET known == IF w.reveal THEN Rooms ELSE h.visited
    IN  [ room      |-> Digits(h.room),
          phase     |-> word,
          visited   |-> ListField(Indicator(h.visited)),
          inspected |-> ListField(Indicator(h.visited)),
          locked    |-> ListField(Flags(h.locks, known)),
          haskey    |-> ListField(Flags(h.keys, known)),
          exit      |-> ListField(Flags(w.exits, known)),
          move0     |-> first ]

\* the host at the start of an episode of world w (garbled and restarts count
\* the prompts that reached the agent garbled and the episodes started again)
HostStart(w) ==
    [room |-> 0, visited |-> {0}, locks |-> w.locks, keys |-> w.keys,
     phase |-> "Observation", started |-> FALSE, garbled |-> 0, restarts |-> 0]

\* the host after the agent's answer a, which takes effect when ok: a MOVE along
\* an edge succeeds, GETKEY and USEKEY clear the room's flag, COMMIT starts the
\* Execution phase at room 0
HostApply(w, h, a, ok) ==
    LET h1 == h
    IN  IF ~ok \/ "command" \notin DOMAIN a THEN h1
        ELSE IF a.command = "MOVE"
        THEN IF {h.room, a.target_room} \in w.edges
             THEN [h1 EXCEPT !.room = a.target_room, !.visited = @ \cup {a.target_room}]
             ELSE h1
        ELSE IF a.command = "GETKEY" THEN [h1 EXCEPT !.keys = @ \ {h.room}]
        ELSE IF a.command = "USEKEY" THEN [h1 EXCEPT !.locks = @ \ {h.room}]
        ELSE IF a.command = "COMMIT" THEN [h1 EXCEPT !.phase = "Execution", !.room = 0]
        ELSE h1

\* the rooms of the branching worlds below
WorldRooms == 4

\* the worlds the host may hold: the lines 0-1-...-n with the exit at n, and
\* two branching graphs with the placings of exits, locks and keys below; a
\* host that reveals reports the flags of every room, visited or not
Line(n) ==
    [edges |-> {{i, i + 1} : i \in 0 .. (n - 1)}, exits |-> {n}, locks |-> {},
     keys |-> {}, reveal |-> FALSE]

Last == WorldRooms - 1
\* room 1 joined to every other room
Star == {{1, k} : k \in (0 .. Last) \ {1}}
\* the triangle 0-1-2 with the line 2-3-... hanging from room 2
Kite == {{0, 1}, {0, 2}, {1, 2}} \cup {{k, k + 1} : k \in 2 .. (Last - 1)}

Worlds ==
    {Line(n) : n \in 1 .. (NumRooms - 1)}
    \cup [edges : {Star, Kite}, exits : {{}, {Last}, {2, Last}}, locks : {{}, {Last}, {1}},
          keys : {{}, {2}, {0}, {1, 2}}, reveal : {FALSE}]
    \cup [edges : {Star, Kite}, exits : {{}, {Last}, {2, Last}}, locks : {{}},
          keys : {{}}, reveal : {TRUE}]

\* the words of the Phase: field a host may send
PhaseWords == {"Observation", "Execution", "PreExecution", "None"}

\* ------------------------------------------------------------ state

VARIABLES
    agents,      \* PurpleExecutor.agents: context id -> agent (or NoAgent)
    resp,        \* what the last turn handed back
    lastOp,      \* the operation that ran last
    lastPrompt,  \* the prompt it processed
    world,       \* the puzzle the host holds
    host,        \* the host's state of the episode
    fresh,       \* a newly constructed agent fed the prompts since the last reset
    obs_turns,   \* Observation turns answered without COMMIT since the reset
    solo,        \* each session's agent had its turns been served alone
    tasks,       \* context id -> the prompt of its task in progress (or NoTask)
    call         \* the last direct call of a planner function, with its result

vars == << agents, resp, lastOp, lastPrompt, world, host, fresh, obs_turns, solo, tasks, call >>

agent == agents[Main]

NoPrompt ==
    [room |-> NoInt, phase |-> "None", visited |-> Absent, inspected |-> Absent,
     locked |-> Absent, haskey |-> Absent, exit |-> Absent, move0 |-> FALSE]

TurnLimit == NumRooms * NumRooms

\* no session was served, no planner function was called directly
NoSolo == [of |-> "none", states |-> [c \in Contexts |-> NoAgent], resp |-> NoResponse]
NoTask == [idle |-> TRUE]
NoTasks == [c \in Contexts |-> NoTask]
NoCall == [fn |-> "none", start |-> 0, target |-> 0, path |-> << >>]

\* the Observation turns so far, after a turn that left the agent s with result r
CountTurn(n, r) ==
    IF ~r.s.has_committed /\ r.act # Commit THEN Min2(n + 1, TurnLimit) ELSE n

Init ==
    /\ world \in Worlds
    /\ host = HostStart(world)
    /\ agents = [c \in Contexts |-> IF c = Main THEN NewAgent ELSE NoAgent]
    /\ resp = NoResponse
    /\ lastOp = "init"
    /\ lastPrompt = NoPrompt
    /\ fresh = NoAgent
    /\ obs_turns = 0
    /\ solo = NoSolo
    /\ tasks = NoTasks
    /\ call = NoCall

\* the host's state when it writes its next prompt
HostNext(ok) ==
    IF ~host.started THEN [host EXCEPT !.started = TRUE]
    ELSE HostApply(world, host, resp.action, ok)

\* a turn in which the caller hands the host's next prompt to select_action
\* (as the tests do); the host let the last answer take effect or not (ok) and
\* writes the phase word it likes
SelectTurn(ok, word, counted) ==
    LET h == HostNext(ok)
        p == HostPrompt(world, h, word, ~host.started)
        r == SelectAction(agent, p)
    IN  /\ host' = h
        /\ agents' = [agents EXCEPT ![Main] = r.s]
        /\ resp' = Response(IF r.ok THEN "returned" ELSE "raised", r.act, ~r.ok)
        /\ lastOp' = "select_action"
        /\ lastPrompt' = p
        /\ obs_turns' = IF counted THEN CountTurn(obs_turns, r) ELSE obs_turns
        /\ fresh' = IF fresh = NoAgent THEN NoAgent ELSE SelectAction(fresh.s, p)
        /\ UNCHANGED << world, solo, tasks, call >>

\* agent.reset() between two runs, the host starting the episode again; with
\* paired, a newly constructed agent is set beside the reset one
ResetRun(paired) ==
    /\ agents' = [agents EXCEPT ![Main] = Reset(agent)]
    /\ host' = HostStart(world)
    /\ resp' = NoResponse
    /\ lastOp' = "reset"
    /\ lastPrompt' = NoPrompt
    /\ obs_turns' = 0
    /\ fresh' = IF paired THEN Returned(NewAgent, NoAction) ELSE fresh
    /\ UNCHANGED << world, solo, tasks, call >>

ResetOp == ResetRun(FALSE)

\* the phase word a host that keeps to its protocol writes
HostWord(ok) == HostNext(ok).phase

Next ==
    \/ \E ok \in BOOLEAN, word \in PhaseWords : SelectTurn(ok, word, FALSE)
    \/ ResetOp

Spec == Init /\ [][Next]_vars

\* ------------------------------------------------------------ exploration only

\* episodes of the worlds without an exit, the host keeping to its protocol but
\* for the moves it lets fail; the turns are counted
InitObs == Init /\ world.exits = {}

NextObs ==
    \/ \E ok \in BOOLEAN : SelectTurn(ok, HostWord(ok), TRUE)
    \/ ResetOp

SpecObs == InitObs /\ [][NextObs]_vars

\* C1: while no exit room is known, the agent answers COMMIT within
\* NumRooms * NumRooms turns of the episode's start, whichever moves the host
\* lets succeed: fewer than that many Observation turns are answered otherwise.
C1_CommitWithinLimit ==
    (agent.exit_room = None /\ ~agent.has_committed) => obs_turns < TurnLimit

\* ------------------------------------------------------------ a host that cooperates

\* every answer takes effect and the phase word is the host's phase
NextCoop ==
    \/ SelectTurn(TRUE, HostWord(TRUE), FALSE)
    \/ ResetOp

SpecCoop == Init /\ [][NextCoop]_vars

IsLine(w) == \E n \in 1 .. (NumRooms - 1) : w = Line(n)
LineEnd(w) == CHOOSE n \in 1 .. (NumRooms - 1) : w = Line(n)

\* C2: on a line 0-1-...-n with the exit at n and a cooperating host, the agent
\* prompted at room k < n answers MOVE k+1, in the Observation phase and again
\* in the Execution phase that starts at room 0, and it answers COMMIT on the
\* Observation turn that shows the exit flag (at room n).
C2_LineWalk ==
    (IsLine(world) /\ lastOp = "select_action") =>
        /\ resp.status = "returned"
        /\ host.room < LineEnd(world) => resp.action = Move(host.room + 1)
        /\ (host.room = LineEnd(world) /\ host.phase = "Observation") => resp.action = Commit

C2_Witness ==
    /\ world = Line(NumRooms - 1)
    /\ host.phase = "Execution"
    /\ agent.has_committed
    /\ host.room = NumRooms - 2
    /\ resp.action = Move(NumRooms - 1)

\* ------------------------------------------------------------ the Execution phase

\* the turn just answered was selected by _exec_action
ExecTurn == lastOp = "select_action" /\ agent.has_committed

NoPending == ~agent.pending_getkey /\ ~agent.pending_usekey

FlagHere(l) == IF InRange(l, agent.current_room) THEN At(l, agent.current_room) ELSE None

\* C3: an Execution turn with no pending flag whose current room is flagged
\* has-key == 1 is answered GETKEY, whatever the route and the lock flags are.
C3_GetKeyFirst ==
    (ExecTurn /\ NoPending /\ FlagHere(agent.room_haskey) = 1) =>
        resp = Response("returned", GetKey, FALSE)

\* the key is taken at a room of a route whose next room is locked
C3_Witness ==
    /\ ExecTurn /\ FlagHere(agent.room_haskey) = 1 /\ resp.action = GetKey
    /\ IndexOf(agent.path_to_exit, agent.current_room) # None
    /\ IndexOf(agent.path_to_exit, agent.current_room) + 1 < Len(agent.path_to_exit)
    /\ At(agent.room_locked,
          At(agent.path_to_exit, IndexOf(agent.path_to_exit, agent.current_room) + 1)) = 1

ExitUnreachable ==
    agent.exit_room = None \/ BfsPath(agent.adj, 0, agent.exit_room) = << >>

\* C4: an Execution turn with the exit unreachable in the discovered adjacency
\* and the route empty after re-planning, at a room that is not the exit and is
\* flagged neither has-key nor locked, is answered INSPECT and raises nothing.
C4_InspectWhenUnreachable ==
    (/\ ExecTurn /\ ExitUnreachable /\ agent.path_to_exit = << >>
     /\ agent.current_room # agent.exit_room
     /\ FlagHere(agent.room_haskey) # 1 /\ FlagHere(agent.room_locked) # 1) =>
        resp = Response("returned", Inspect, FALSE)

\* the exit is known and no path leads to it
C4_Witness ==
    /\ ExecTurn /\ agent.exit_room # None /\ ExitUnreachable
    /\ agent.path_to_exit = << >> /\ agent.current_room # agent.exit_room
    /\ resp.action = Inspect

\* ------------------------------------------------------------ reset

\* a reset agent beside a newly constructed one, both fed the host's prompts
NextReset ==
    \/ \E ok \in BOOLEAN : SelectTurn(ok, HostWord(ok), FALSE)
    \/ ResetRun(TRUE)

SpecReset == Init /\ [][NextReset]_vars

\* C5: after a reset, whatever the turns before it, the agent answers every
\* prompt as a newly constructed agent fed the same prompts does, and holds the
\* same state.
C5_ResetIsFresh ==
    fresh # NoAgent =>
        /\ fresh.s = agent
        /\ lastOp = "select_action" => (fresh.act = resp.action /\ fresh.ok = ~resp.fault)

\* both have explored, committed and follow a route after the reset
C5_Witness ==
    /\ fresh # NoAgent /\ fresh.s = agent /\ agent.has_committed
    /\ agent.adj # {} /\ resp.action = fresh.act /\ "target_room" \in DOMAIN fresh.act

\* C6 as amended: right after reset the adjacency is empty, exit and key room
\* are unknown, the path is empty and the cursor 0, the committed and pending
\* flags are false, the locked, has-key and is-exit vectors are all -1, the
\* visited and inspected vectors are all 0, the current room is 0, the
\* exploration visited-set is {0} and the frontier is empty.
C6_ResetState ==
    lastOp = "reset" =>
        /\ agent.adj = {} /\ agent.exit_room = None /\ agent.known_key_room = None
        /\ agent.path_to_exit = << >> /\ agent.path_index = 0
        /\ ~agent.has_committed /\ ~agent.pending_getkey /\ ~agent.pending_usekey
        /\ agent.room_locked = Fill(-1) /\ agent.room_haskey = Fill(-1)
        /\ agent.room_exit = Fill(-1)
        /\ agent.room_visited = Fill(0) /\ agent.room_inspected = Fill(0)
        /\ agent.current_room = 0 /\ agent.obs_visited = {0}
        /\ agent.obs_frontier = << >>

C6_Witness == lastOp = "reset" /\ agent.room_visited = Fill(0) /\ agent.obs_visited = {0}

\* C6 as claimed: right after reset all five flag vectors, visited and
\* inspected included, are all-unknown (-1 in each of the 8 positions).
C6_AllVectorsUnknown ==
    lastOp = "reset" =>
        /\ agent.adj = {} /\ agent.exit_room = None /\ agent.known_key_room = None
        /\ agent.path_to_exit = << >> /\ agent.path_index = 0
        /\ ~agent.has_committed /\ ~agent.pending_getkey /\ ~agent.pending_usekey
        /\ agent.room_locked = Fill(-1) /\ agent.room_haskey = Fill(-1)
        /\ agent.room_exit = Fill(-1)
        /\ agent.room_visited = Fill(-1) /\ agent.room_inspected = Fill(-1)
        /\ agent.current_room = 0 /\ agent.obs_visited = {0}

\* ------------------------------------------------------------ commitment and answers

\* C7: once a prompt whose phase word contains "Execution" was processed, the
\* committed flag stays true over every later turn, whatever phase word it
\* carries, until reset.
C7_CommittedSticky ==
    [][(agent.has_committed /\ lastOp' # "reset") => agent'.has_committed]_vars

\* a committed agent has processed a prompt that says Observation
C7_Witness ==
    /\ agent.has_committed /\ lastOp = "select_action"
    /\ lastPrompt.phase = "Observation"

WellShaped(a) ==
    /\ "command" \in DOMAIN a
    /\ \/ a \in {GetKey, UseKey, Inspect, Commit}
       \/ /\ a.command = "MOVE"
          /\ DOMAIN a = {"command", "target_room"}
          /\ a.target_room \in Rooms

\* C8: a turn whose prompt is well-formed returns one action: MOVE with a
\* target_room in 0..7, or GETKEY, USEKEY, INSPECT or COMMIT with no parameter.
C8_ActionShape ==
    lastOp = "select_action" => (resp.status = "returned" /\ WellShaped(resp.action))

C8_Witness ==
    /\ lastOp = "select_action" /\ agent.has_committed
    /\ resp.action = Move(Last) /\ WellShaped(resp.action)

\* ------------------------------------------------------------ turns through the entry points

\* the garbled prompts and the restarted episodes of a run
MaxGarbled == 1
MaxRestarts == 1

\* what a prompt may carry in place of one of the host's fields
ListFields == {"visited", "inspected", "locked", "haskey", "exit"}
Garbles ==
    {<< "none", "none" >>}
    \cup (ListFields \X {"absent", "malformed", "short", "long"})
    \cup ({"room"} \X {"absent", "negative", "beyond"})
    \cup ({"phase"} \X {"execution", "None"})

\* the host's list with its last element dropped, or with one more
Garbled(l, how) ==
    CASE how = "absent"    -> Absent
      [] how = "malformed" -> Malformed
      [] how = "short"     -> ListField(SubSeq(l, 1, Len(l) - 1))
      [] how = "long"      -> ListField(Append(l, 0))

\* the prompt p with the field g[1] written as g[2] says
Garble(p, g) ==
    CASE g[1] = "none"  -> p
      [] g[1] = "room"  -> [p EXCEPT !.room = CASE g[2] = "absent"   -> NoInt
                                                [] g[2] = "negative" -> Negative(1)
                                                [] g[2] = "beyond"   -> Digits(NumRooms)]
      [] g[1] = "phase" -> [p EXCEPT !.phase = g[2]]
      [] OTHER          -> [p EXCEPT ![g[1]] = Garbled(p[g[1]].val, g[2])]

\* the worlds of the episodes served through the entry points
EntryWorlds ==
    {Line(1), Line(2),
     [edges |-> Star, exits |-> {Last}, locks |-> {1}, keys |-> {2}, reveal |-> FALSE]}

\* the executor has seen no context yet, or a standalone agent was constructed
InitEntry ==
    /\ world \in EntryWorlds
    /\ host = HostStart(world)
    /\ agents \in {[c \in Contexts |-> NoAgent],
                   [c \in Contexts |-> IF c = Main THEN NewAgent ELSE NoAgent]}
    /\ resp = NoResponse
    /\ lastOp = "init"
    /\ lastPrompt = NoPrompt
    /\ fresh = NoAgent
    /\ obs_turns = 0
    /\ solo = NoSolo
    /\ tasks = NoTasks
    /\ call = NoCall

\* the host after writing its next prompt, which reaches the agent as g says
HostSends(g) ==
    [HostNext(TRUE) EXCEPT !.garbled = IF g[1] = "none" THEN @ ELSE @ + 1]

\* a turn served by BaselinePurpleAgent.run
RunTurn(g) ==
    LET p == Garble(HostPrompt(world, HostNext(TRUE), HostWord(TRUE), ~host.started), g)
        r == Run(agent, p)
    IN  /\ agent # NoAgent
        /\ g[1] = "none" \/ host.garbled < MaxGarbled
        /\ host' = HostSends(g)
        /\ agents' = [agents EXCEPT ![Main] = r.s]
        /\ resp' = r.resp
        /\ lastOp' = "run"
        /\ lastPrompt' = p
        /\ UNCHANGED << world, fresh, obs_turns, solo, tasks, call >>

\* a turn served by PurpleExecutor.execute for the context Main
ExecuteTurn(g) ==
    LET p == Garble(HostPrompt(world, HostNext(TRUE), HostWord(TRUE), ~host.started), g)
        r == Execute(agent, p)
    IN  /\ g[1] = "none" \/ host.garbled < MaxGarbled
        /\ host' = HostSends(g)
        /\ agents' = [agents EXCEPT ![Main] = r.s]
        /\ resp' = r.resp
        /\ lastOp' = "execute"
        /\ lastPrompt' = p
        /\ UNCHANGED << world, fresh, obs_turns, solo, tasks, call >>

\* the host starts the episode again: its next prompt says "(Move 0)"
HostRestart ==
    /\ host.started
    /\ host.restarts < MaxRestarts
    /\ host' = [HostStart(world) EXCEPT !.garbled = host.garbled,
                                        !.restarts = host.restarts + 1]
    /\ resp' = NoResponse
    /\ lastOp' = "restart"
    /\ UNCHANGED << agents, lastPrompt, world, fresh, obs_turns, solo, tasks, call >>

NextEntry ==
    \/ \E g \in Garbles : RunTurn(g)
    \/ \E g \in Garbles : ExecuteTurn(g)
    \/ HostRestart

SpecEntry == InitEntry /\ [][NextEntry]_vars

\* C9: when select_action raises during a turn, the response of the turn is the
\* INSPECT action and no error is reported, on both entry points.
C9_FaultYieldsInspect ==
    (lastOp \in {"run", "execute"} /\ resp.fault) =>
        (resp.status = "completed" /\ resp.action = Inspect)

\* the stored attribute of a list field, and the room derived from it
Stored(f) ==
    CASE f = "visited"   -> "room_visited"
      [] f = "inspected" -> "room_inspected"
      [] f = "locked"    -> "room_locked"
      [] f = "haskey"    -> "room_haskey"
      [] f = "exit"      -> "room_exit"

BadList(fld) == fld.kind = "malformed" \/ (fld.kind = "list" /\ Len(fld.val) # NumRooms)

\* C10: a turn whose prompt carries, for a flag-vector field, a list of a
\* length other than 8 or malformed contents leaves the stored vector, and the
\* exit or key room derived from it, as they were before the turn.
C10_BadListIsNoOp ==
    [][\A f \in ListFields :
          (/\ lastOp' \in {"run", "execute"} /\ agent # NoAgent
           /\ ~lastPrompt'.move0 /\ BadList(lastPrompt'[f])) =>
              /\ agent'[Stored(f)] = agent[Stored(f)]
              /\ agent'.exit_room = agent.exit_room
              /\ agent'.known_key_room = agent.known_key_room]_vars

\* ------------------------------------------------------------ a malformed turn among well-formed ones

\* what a malformed prompt carries in place of one of the host's fields
Malformations ==
    (ListFields \X {"malformed", "short", "long"}) \cup ({"room"} \X {"negative", "beyond"})

\* the host lets the answer to a well-formed prompt take effect, and drops the
\* answer to a malformed one
AnswerCounts == lastOp # "malformed"

\* an agent, and beside it (fresh) an agent that is handed the well-formed
\* prompts only
InitMalformed ==
    /\ world \in EntryWorlds
    /\ host = HostStart(world)
    /\ agents = [c \in Contexts |-> IF c = Main THEN NewAgent ELSE NoAgent]
    /\ resp = NoResponse
    /\ lastOp = "init"
    /\ lastPrompt = NoPrompt
    /\ fresh = Returned(NewAgent, NoAction)
    /\ obs_turns = 0
    /\ solo = NoSolo
    /\ tasks = NoTasks
    /\ call = NoCall

\* a turn in which select_action is handed the host's prompt with one field
\* malformed
MalformedTurn(g) ==
    LET h == HostNext(AnswerCounts)
        p == Garble(HostPrompt(world, h, h.phase, ~host.started), g)
        r == SelectAction(agent, p)
    IN  /\ host.garbled < MaxGarbled
        /\ host' = [h EXCEPT !.garbled = @ + 1]
        /\ agents' = [agents EXCEPT ![Main] = r.s]
        /\ resp' = Response(IF r.ok THEN "returned" ELSE "raised", r.act, ~r.ok)
        /\ lastOp' = "malformed"
        /\ lastPrompt' = p
        /\ UNCHANGED << world, fresh, obs_turns, solo, tasks, call >>

NextMalformed ==
    \/ SelectTurn(AnswerCounts, HostWord(AnswerCounts), FALSE)
    \/ \E g \in Malformations : MalformedTurn(g)

SpecMalformed == InitMalformed /\ [][NextMalformed]_vars

\* C11: the well-formed turn that follows a turn with a malformed field selects
\* its action without fault, and the action is the one an agent that was never
\* handed the malformed prompt returns for the same prompt.
C11_MalformedTurnLeavesNoTrace ==
    [][(lastOp = "malformed" /\ lastOp' = "select_action") =>
          (~resp'.fault /\ resp'.action = fresh'.act)]_vars

\* ------------------------------------------------------------ two sessions of one executor

\* the second session, and the prompts its host may send: those of the line
\* 0-1 at each of its rooms, in either phase
Other == "c2"
OtherPrompts ==
    {HostPrompt(Line(1), [HostStart(Line(1)) EXCEPT !.room = k, !.visited = 0 .. k], w, FALSE) :
        k \in 0 .. 1, w \in {"Observation", "Execution"}}

\* self.agents.get(context_id)
AgentOf(ags, c) == ags[c]

\* an executor that keeps one agent for all its contexts
StoreAgent_Shared(ags, c, s) == [d \in DOMAIN ags |-> s]

\* self.agents[context_id] = agent; the object is the one select_action mutates
StoreAgent(ags, c, s) == [ags EXCEPT ![c] = s]

\* the agent of a context after the lookup of execute, created when there is none
Ensured(a) == IF a = NoAgent THEN NewAgent ELSE a

\* execute up to `await updater.start_work()`: the agent of the context is
\* looked up or created; other tasks may run before this one goes on
ExecuteBegin(c, p) ==
    /\ tasks[c] = NoTask
    /\ c = Main => p = HostPrompt(world, host, host.phase, ~host.started)
    /\ c # Main => p \in OtherPrompts
    /\ tasks' = [tasks EXCEPT ![c] = [prompt |-> p]]
    /\ agents' = IF AgentOf(agents, c) = NoAgent THEN StoreAgent(agents, c, NewAgent) ELSE agents
    /\ solo' = [solo EXCEPT !.states[c] = Ensured(@)]
    /\ host' = IF c = Main THEN [host EXCEPT !.started = TRUE] ELSE host
    /\ lastOp' = "begin"
    /\ UNCHANGED << resp, lastPrompt, world, fresh, obs_turns, call >>

\* the end of a task of context c with prompt p: r is what execute made of the
\* agent of the context, q what it makes of the agent of the session served
\* alone; the host of the session lets the answer take effect
Complete(c, p, r, q) ==
    /\ tasks' = [tasks EXCEPT ![c] = NoTask]
    /\ agents' = StoreAgent(agents, c, r.s)
    /\ resp' = r.resp
    /\ solo' = [of |-> c, states |-> [solo.states EXCEPT ![c] = q.s], resp |-> q.resp]
    /\ host' = IF c = Main THEN HostApply(world, host, r.resp.action, TRUE) ELSE host
    /\ lastOp' = "execute"
    /\ lastPrompt' = p
    /\ UNCHANGED << world, fresh, obs_turns, call >>

\* execute from the try block on: select_action on the agent of the context
\* and the report to the caller
ExecuteFinish(c) ==
    /\ tasks[c] # NoTask
    /\ Complete(c, tasks[c].prompt, Execute(AgentOf(agents, c), tasks[c].prompt),
                Execute(solo.states[c], tasks[c].prompt))

InitSessions ==
    /\ world \in EntryWorlds
    /\ host = HostStart(world)
    /\ agents = [c \in Contexts |-> NoAgent]
    /\ resp = NoResponse
    /\ lastOp = "init"
    /\ lastPrompt = NoPrompt
    /\ fresh = NoAgent
    /\ obs_turns = 0
    /\ solo = NoSolo
    /\ tasks = NoTasks
    /\ call = NoCall

NextSessions ==
    \/ \E c \in Contexts, p \in OtherPrompts \cup {HostPrompt(world, host, host.phase, ~host.started)} :
           ExecuteBegin(c, p)
    \/ \E c \in Contexts : ExecuteFinish(c)

SpecSessions == InitSessions /\ [][NextSessions]_vars

\* C12: the executor holds one agent per context id that has a task; under
\* every interleaving of the tasks of two sessions each session's agent holds
\* the state, and each task is answered with the response, that the session
\* gets when its turns are served alone.
C12_SessionIsolation ==
    /\ \A c \in Contexts : tasks[c] # NoTask => agents[c] # NoAgent
    /\ \A c \in Contexts : agents[c] = solo.states[c]
    /\ lastOp = "execute" => resp = solo.resp

\* a task of the first session ends, in its Execution phase, while a task of
\* the second, which has explored, is in progress
C12_Witness ==
    /\ lastOp = "execute" /\ solo.of = Main /\ agents[Main].has_committed
    /\ resp.status = "completed" /\ "target_room" \in DOMAIN resp.action
    /\ tasks[Other] # NoTask /\ agents[Other] # NoAgent /\ agents[Other].adj # {}
    /\ agents[Other] # agents[Main]

\* ------------------------------------------------------------ the start of an episode

\* C13: a turn whose prompt carries the marker "(Move 0)", served by run or by
\* execute, leaves the agent in the state, and answers with the action, of a
\* newly reset agent handed that prompt: nothing of the earlier turns remains.
C13_MarkerResets ==
    (lastOp \in {"run", "execute"} /\ lastPrompt.move0) =>
        /\ agent = SelectAction(NewAgent, lastPrompt).s
        /\ resp.fault = ~SelectAction(NewAgent, lastPrompt).ok
        /\ ~resp.fault => resp.action = SelectAction(NewAgent, lastPrompt).act

\* ------------------------------------------------------------ the end of the route

\* C14: an Execution turn with no pending flag, at the known exit room, which
\* is the last room of the planned route and is flagged neither has-key nor
\* locked, is answered INSPECT, whatever the length of the route.
C14_InspectAtExit ==
    (/\ ExecTurn /\ NoPending
     /\ agent.exit_room # None /\ agent.current_room = agent.exit_room
     /\ agent.path_to_exit # << >>
     /\ agent.path_to_exit[Len(agent.path_to_exit)] = agent.current_room
     /\ FlagHere(agent.room_haskey) # 1 /\ FlagHere(agent.room_locked) # 1) =>
        resp = Response("returned", Inspect, FALSE)

\* ------------------------------------------------------------ exploration

\* the turn just answered was selected by _obs_action
ObsTurn == lastOp = "select_action" /\ ~agent.has_committed

\* C15: a MOVE selected in the Observation phase targets a room whose visited
\* flag is not 1 when the action is selected, and never the current room.
C15_MoveTargetsUnvisited ==
    (ObsTurn /\ resp.status = "returned" /\ resp.action.command = "MOVE") =>
        /\ At(agent.room_visited, resp.action.target_room) # 1
        /\ resp.action.target_room # agent.current_room

\* ------------------------------------------------------------ the exit room and the key room

HasOne(l) == \E k \in 1 .. Len(l) : l[k] = 1

\* the lowest index of l that holds 1
FirstOne(l) == (CHOOSE k \in 1 .. Len(l) : l[k] = 1 /\ \A j \in 1 .. (k - 1) : l[j] # 1) - 1

\* C16: after a turn whose prompt carries a parsable is-exit vector with at
\* least one 1 the known exit room is the lowest index holding 1, and after a
\* parsable has-key vector with at least one 1 the known key room is the
\* lowest index holding 1, also when several entries are 1.
C16_FirstIndexRecorded ==
    lastOp = "select_action" =>
        /\ (lastPrompt.exit.kind = "list" /\ HasOne(lastPrompt.exit.val)) =>
               agent.exit_room = FirstOne(lastPrompt.exit.val)
        /\ (lastPrompt.haskey.kind = "list" /\ HasOne(lastPrompt.haskey.val)) =>
               agent.known_key_room = FirstOne(lastPrompt.haskey.val)

\* ------------------------------------------------------------ the path planner called directly

\* the rooms of the graphs handed to the planner, and the largest difference
\* between the ids of two joined rooms
PlanRooms == 5
PlanSpan == 2

\* the adjacency maps discovery can build over rooms 0 .. PlanRooms-1: every
\* set of edges, each edge held in both directions, with or without the entry
\* 0 -> 0 that the first prompt adds
PlanEdges ==
    {e \in SUBSET (0 .. (PlanRooms - 1)) :
        Cardinality(e) = 2 /\ \A a \in e, b \in e : a - b <= PlanSpan}
AdjOf(E, loop) ==
    {d \in (0 .. (PlanRooms - 1)) \X (0 .. (PlanRooms - 1)) : {d[1], d[2]} \in E}
    \cup (IF loop THEN {<< 0, 0 >>} ELSE {})
PlanGraphs == {AdjOf(E, loop) : E \in SUBSET PlanEdges, loop \in BOOLEAN}

InitBfs ==
    /\ world = Line(1)
    /\ host = HostStart(world)
    /\ \E g \in PlanGraphs :
          agents = [c \in Contexts |-> IF c = Main THEN [NewAgent EXCEPT !.adj = g] ELSE NoAgent]
    /\ resp = NoResponse
    /\ lastOp = "init"
    /\ lastPrompt = NoPrompt
    /\ fresh = NoAgent
    /\ obs_turns = 0
    /\ solo = NoSolo
    /\ tasks = NoTasks
    /\ call = NoCall

\* self._bfs_path(start, target), once; room PlanRooms has no entry in adj
BfsCall(start, target) ==
    /\ call = NoCall
    /\ call' = [fn |-> "bfs", start |-> start, target |-> target,
                path |-> BfsPath(agent.adj, start, target)]
    /\ lastOp' = "bfs"
    /\ UNCHANGED << agents, resp, lastPrompt, world, host, fresh, obs_turns, solo, tasks >>

NextBfs == \E start \in 0 .. PlanRooms, target \in 0 .. PlanRooms : BfsCall(start, target)

SpecBfs == InitBfs /\ [][NextBfs]_vars

\* the rooms at most k edges away from room a
RECURSIVE Within(_, _, _)
Within(adj, a, k) ==
    IF k = 0 THEN {a}
    ELSE LET W == Within(adj, a, k - 1)
         IN  W \cup {d[2] : d \in {e \in adj : e[1] \in W}}

Reachable(adj, a, b) == b \in Within(adj, a, NumRooms)

\* the least number of edges of a walk from a to b, for b reachable from a
Distance(adj, a, b) ==
    CHOOSE k \in 0 .. NumRooms :
        b \in Within(adj, a, k) /\ (k = 0 \/ b \notin Within(adj, a, k - 1))

\* C17: _bfs_path(start, target) returns the empty list exactly when target is
\* not reachable from start in the adjacency map; otherwise the list begins
\* with start, ends with target, has each consecutive pair adjacent, repeats no
\* room and has the least number of edges of any such path.
C17_ShortestPath ==
    call.fn = "bfs" =>
        LET path == call.path
            n == Len(call.path)
        IN  /\ path = << >> <=> ~Reachable(agent.adj, call.start, call.target)
            /\ path # << >> =>
                  /\ path[1] = call.start /\ path[n] = call.target
                  /\ \A k \in 1 .. (n - 1) : << path[k], path[k + 1] >> \in agent.adj
                  /\ \A j, k \in 1 .. n : path[j] = path[k] => j = k
                  /\ n - 1 = Distance(agent.adj, call.start, call.target)

\* a path of two edges was found in a graph that also holds a longer way round
C17_Witness ==
    /\ call.fn = "bfs" /\ Len(call.path) = 3 /\ call.path[1] = 0
    /\ \E r \in 0 .. (PlanRooms - 1), q \in 0 .. (PlanRooms - 1) :
          /\ \A k \in 1 .. 3 : call.path[k] # r /\ call.path[k] # q
          /\ r < call.path[2]
          /\ {<< 0, r >>, << r, q >>, << q, call.path[3] >>} \subseteq agent.adj

\* C18: in every state the agent reaches, _bfs_path(a, a) is [a] for every
\* room a, with or without an entry in adj, and for all rooms a and b
\* _bfs_path(a, b) is non-empty exactly when _bfs_path(b, a) is.
C18_PathSymmetry ==
    /\ \A a \in Rooms : BfsPath(agent.adj, a, a) = << a >>
    /\ LET found == {d \in Rooms \X Rooms : BfsPath(agent.adj, d[1], d[2]) # << >>}
       IN  \A d \in found : << d[2], d[1] >> \in found

\* the agent has discovered a way of two edges or more, and has no entry for
\* the last room
C18_Witness ==
    /\ lastOp = "select_action"
    /\ Len(BfsPath(agent.adj, 0, Last)) >= 3 /\ BfsPath(agent.adj, Last, 0) # << >>
    /\ Neighbors(agent.adj, NumRooms - 1) = {}
    /\ BfsPath(agent.adj, NumRooms - 1, NumRooms - 1) = << NumRooms - 1 >>
    /\ BfsPath(agent.adj, 0, NumRooms - 1) = << >>

\* ------------------------------------------------------------ a lock ahead

\* the room after the current room on the route, or None
NextOnRoute ==
    LET idx == IndexOf(agent.path_to_exit, agent.current_room)
    IN  IF idx # None /\ idx + 1 < Len(agent.path_to_exit)
        THEN At(agent.path_to_exit, idx + 1) ELSE None

\* C19: an Execution turn at a room flagged neither has-key nor locked, whose
\* next room on the planned route is flagged locked == 1, is answered USEKEY
\* and not MOVE into the locked room.
C19_UseKeyBeforeLockedRoom ==
    (/\ ExecTurn /\ NoPending
     /\ FlagHere(agent.room_haskey) # 1 /\ FlagHere(agent.room_locked) # 1
     /\ NextOnRoute # None /\ InRange(agent.room_locked, NextOnRoute)
     /\ At(agent.room_locked, NextOnRoute) = 1) =>
        resp = Response("returned", UseKey, FALSE)

\* ------------------------------------------------------------ the route planner called directly

\* the rooms of the puzzles handed to the route planner
RouteRooms == 4

\* their adjacency maps (every set of edges joining ids at most PlanSpan apart,
\* with the entry 0 -> 0), lock vectors (at most two locked rooms), exit rooms
\* and key rooms
RouteEdges ==
    {e \in SUBSET (0 .. (RouteRooms - 1)) :
        Cardinality(e) = 2 /\ \A a \in e, b \in e : a - b <= PlanSpan}
RouteGraphs ==
    {{d \in (0 .. (RouteRooms - 1)) \X (0 .. (RouteRooms - 1)) : {d[1], d[2]} \in E}
        \cup {<< 0, 0 >>} : E \in SUBSET RouteEdges}
RouteLocks == {L \in SUBSET (0 .. (RouteRooms - 1)) : Cardinality(L) <= 2}
MaybeRoom == {None} \cup (0 .. (RouteRooms - 1))

InitPlan ==
    /\ world = Line(1)
    /\ host = HostStart(world)
    /\ \E g \in RouteGraphs, L \in RouteLocks, e \in MaybeRoom, k \in MaybeRoom :
          agents = [c \in Contexts |->
                      IF c = Main
                      THEN [NewAgent EXCEPT !.adj = g,
                                            !.room_locked = Flags(L, 0 .. (RouteRooms - 1)),
                                            !.exit_room = e,
                                            !.known_key_room = k]
                      ELSE NoAgent]
    /\ resp = NoResponse
    /\ lastOp = "init"
    /\ lastPrompt = NoPrompt
    /\ fresh = NoAgent
    /\ obs_turns = 0
    /\ solo = NoSolo
    /\ tasks = NoTasks
    /\ call = NoCall

\* self._plan_solution(), once
PlanCall ==
    LET planned == PlanSolution(agent)
    IN  /\ call = NoCall
        /\ agents' = [agents EXCEPT ![Main] = planned.s]
        /\ call' = [fn |-> IF planned.ok THEN "plan" ELSE "raised", start |-> 0,
                    target |-> agent.exit_room, path |-> planned.s.path_to_exit]
        /\ lastOp' = "plan"
        /\ UNCHANGED << resp, lastPrompt, world, host, fresh, obs_turns, solo, tasks >>

NextPlan == PlanCall

SpecPlan == InitPlan /\ [][NextPlan]_vars

\* a list without its first element: l[1:]
DropFirst(l) == IF l = << >> THEN << >> ELSE Tail(l)

\* the positions (from 0) on the path of the rooms flagged locked == 1
LockedAt(path, locked) == {k \in 0 .. (Len(path) - 1) : At(locked, At(path, k)) = 1}

\* the key room is known and stands on the path before its first locked room
KeyBeforeLock(path, locked, key) ==
    /\ key # None
    /\ \E k \in 0 .. (Len(path) - 1) :
          At(path, k) = key /\ \A j \in LockedAt(path, locked) : k < j

\* the detour by the key room
Detour(adj, exit, key) == BfsPath(adj, 0, key) \o DropFirst(BfsPath(adj, key, exit))

\* the route of the procedure as claimed
RouteClaimed(adj, locked, exit, key) ==
    LET direct == BfsPath(adj, 0, exit)
    IN  IF direct = << >> THEN << >>
        ELSE IF LockedAt(direct, locked) = {} THEN direct
        ELSE IF key = None THEN direct
        ELSE IF KeyBeforeLock(direct, locked, key) THEN direct
        ELSE Detour(adj, exit, key)

\* the route of the procedure with the detour taken only when both its legs
\* exist
RouteAmended(adj, locked, exit, key) ==
    LET direct == BfsPath(adj, 0, exit)
    IN  IF direct = << >> THEN << >>
        ELSE IF LockedAt(direct, locked) = {} THEN direct
        ELSE IF key = None THEN direct
        ELSE IF KeyBeforeLock(direct, locked, key) THEN direct
        ELSE IF BfsPath(adj, 0, key) = << >> \/ BfsPath(adj, key, exit) = << >> THEN direct
        ELSE Detour(adj, exit, key)

\* C20 as amended: for a known exit room _plan_solution sets the route to the
\* empty list if the shortest path from 0 to the exit is empty; to that direct
\* path if no room on it is locked, or no key room is known, or the key room
\* lies on it before the first locked room, or the key room cannot be reached
\* from room 0 (or the exit from the key room); and otherwise to the shortest
\* path from 0 to the key room followed by the shortest path from the key room
\* to the exit without its first element.
C20_PlanRoute ==
    (lastOp = "plan" /\ agent.exit_room # None) =>
        /\ call.fn = "plan"
        /\ agent.path_to_exit =
              RouteAmended(agent.adj, agent.room_locked, agent.exit_room, agent.known_key_room)

\* a detour was planned that goes to the key room and back through a room
C20_Witness ==
    /\ lastOp = "plan" /\ agent.exit_room # None /\ agent.known_key_room # None
    /\ agent.path_to_exit # BfsPath(agent.adj, 0, agent.exit_room)
    /\ Len(agent.path_to_exit) >= 5
    /\ \E j, k \in 1 .. Len(agent.path_to_exit) : j # k /\ agent.path_to_exit[j] = agent.path_to_exit[k]

\* C20 as claimed: whenever a room of the direct path is locked and the known
\* key room does not lie before the first of them, the route is the shortest
\* path from 0 to the key room followed by the shortest path from the key room
\* to the exit without its first element.
C20_PlanRouteAsClaimed ==
    (lastOp = "plan" /\ agent.exit_room # None) =>
        /\ call.fn = "plan"
        /\ agent.path_to_exit =
              RouteClaimed(agent.adj, agent.room_locked, agent.exit_room, agent.known_key_room)

\* ------------------------------------------------------------ the decision to commit

\* the agent when _obs_action is entered in a turn that starts from s with
\* prompt p: the fields synced, the new neighbours recorded, the frontier seeded
ObsEntry(s, p) ==
    LET synced == SyncState(s, p)
        moved == \/ synced.current_room # s.current_room
                 \/ AnyDiffers(synced.room_visited, s.room_visited, 0) = "true"
    IN  SeedFrontier(IF moved THEN RecordNewNeighbors(synced, s.current_room, s.room_visited).s
                     ELSE synced)

\* some room of the route is flagged locked
RouteLocked(s) == \E k \in 1 .. Len(s.path_to_exit) : At(s.room_locked, s.path_to_exit[k]) = 1

\* the turn just taken was answered in the Observation phase with the exit known
ObsTurnExitKnown == lastOp' = "select_action" /\ ~resp'.fault /\ ~agent'.has_committed /\ agent'.exit_room # None

\* C21: an Observation turn with the exit room known plans the route afresh
\* and answers COMMIT exactly when the route has no locked room, or a key room
\* is known, or the frontier is empty; otherwise it takes the head off the
\* frontier and answers MOVE to it.
C21_CommitRule ==
    [][ObsTurnExitKnown =>
          LET e == ObsEntry(agent, lastPrompt')
              may == \/ ~RouteLocked(agent')
                     \/ agent'.known_key_room # None
                     \/ e.obs_frontier = << >>
          IN  /\ agent'.path_to_exit = PlanSolution(e).s.path_to_exit
              /\ resp'.action = Commit <=> may
              /\ ~may => /\ resp'.action = Move(Head(e.obs_frontier))
                         /\ agent'.obs_frontier = Tail(e.obs_frontier)]_vars

\* the exit is known behind a lock, no key room is known and rooms are left to
\* try: the agent moved on
C21_Witness ==
    /\ lastOp = "select_action" /\ ~agent.has_committed /\ agent.exit_room # None
    /\ RouteLocked(agent) /\ agent.known_key_room = None
    /\ resp.status = "returned" /\ resp.action.command = "MOVE"

\* ------------------------------------------------------------ the discovered graph

\* C22: in every reachable state the adjacency map is symmetric: b is in
\* adj[a] exactly when a is in adj[b].
C22_AdjSymmetric == \A d \in agent.adj : << d[2], d[1] >> \in agent.adj

\* the agent has discovered two edges between different rooms
C22_Witness ==
    \E d, e \in agent.adj :
        d[1] < d[2] /\ e[1] < e[2] /\ d # e /\ << d[2], d[1] >> \in agent.adj

\* C23: no turn removes an edge of the adjacency map; a reset leaves it empty.
C23_AdjGrows ==
    [][/\ lastOp' = "select_action" => agent.adj \subseteq agent'.adj
       /\ lastOp' = "reset" => agent'.adj = {}]_vars

\* the edges found while exploring are all there in the Execution phase
C23_Witness ==
    /\ lastOp = "select_action" /\ agent.has_committed
    /\ {<< 0, 1 >>, << 1, 0 >>} \subseteq agent.adj /\ Cardinality(agent.adj) >= 5
    /\ resp.action.command = "MOVE"

\* the visited flag of room i went from 0 to 1 in the step
Flipped(i) ==
    /\ InRange(agent.room_visited, i) /\ At(agent.room_visited, i) = 0
    /\ InRange(agent'.room_visited, i) /\ At(agent'.room_visited, i) = 1

\* C24: every edge a turn adds to the adjacency map joins the room the agent
\* was in before the turn's prompt with a room whose visited flag went from 0
\* to 1 with that prompt; no other edge is added.
C24_EdgesFromFlips ==
    [][lastOp' = "select_action" =>
          \A d \in agent'.adj \ agent.adj :
              \/ d[1] = agent.current_room /\ Flipped(d[2])
              \/ d[2] = agent.current_room /\ Flipped(d[1])]_vars

\* the agent stands in a room it came to from another, with the edge between
\* the two recorded, and has found three rooms or more
C24_Witness ==
    /\ lastOp = "select_action" /\ ~agent.has_committed
    /\ \E q \in Rooms \ {agent.current_room} :
          /\ << q, agent.current_room >> \in agent.adj
          /\ << agent.current_room, q >> \in agent.obs_parent
    /\ Cardinality(agent.obs_visited) >= 3

\* ------------------------------------------------------------ the start room

StoredFields == ListFields \cup {"room"}

\* the prompt p without the fields of F
Omit(p, F) ==
    [f \in DOMAIN p |-> IF f \notin F THEN p[f] ELSE IF f = "room" THEN NoInt ELSE Absent]

InitFields ==
    /\ world \in EntryWorlds
    /\ host = HostStart(world)
    /\ agents = [c \in Contexts |-> IF c = Main THEN NewAgent ELSE NoAgent]
    /\ resp = NoResponse
    /\ lastOp = "init"
    /\ lastPrompt = NoPrompt
    /\ fresh = NoAgent
    /\ obs_turns = 0
    /\ solo = NoSolo
    /\ tasks = NoTasks
    /\ call = NoCall

\* the sets of fields a prompt may lack: any one of them, or all
Omissions == {{f} : f \in StoredFields} \cup {StoredFields}

\* a turn in which select_action is handed the host's prompt without the
\* fields of F
PartialTurn(F) ==
    LET h == HostNext(TRUE)
        p == Omit(HostPrompt(world, h, h.phase, ~host.started), F)
        r == SelectAction(agent, p)
    IN  /\ host.garbled < MaxGarbled
        /\ host' = [h EXCEPT !.garbled = @ + 1]
        /\ agents' = [agents EXCEPT ![Main] = r.s]
        /\ resp' = Response(IF r.ok THEN "returned" ELSE "raised", r.act, ~r.ok)
        /\ lastOp' = "partial"
        /\ lastPrompt' = p
        /\ UNCHANGED << world, fresh, obs_turns, solo, tasks, call >>

\* the host writes the phase word it likes and may leave fields out
NextFields ==
    \/ \E word \in PhaseWords : SelectTurn(TRUE, word, FALSE)
    \/ \E F \in Omissions : PartialTurn(F)

SpecFields == InitFields /\ [][NextFields]_vars

\* the step was a turn of select_action
TurnTaken == lastOp' \in {"select_action", "partial"}

\* C26: a turn whose prompt lacks a labelled field (current room, visited,
\* inspected, locked, has-key, is-exit) leaves the stored value of that field
\* as it was, and a turn whose prompt carries the field stores exactly the
\* value parsed from it.
C26_StickyFields ==
    [][TurnTaken =>
          /\ \A f \in ListFields :
                /\ lastPrompt'[f] = Absent => agent'[Stored(f)] = agent[Stored(f)]
                /\ lastPrompt'[f].kind = "list" => agent'[Stored(f)] = ParseList(lastPrompt'[f]).val
          /\ lastPrompt'.room = NoInt => agent'.current_room = agent.current_room
          /\ lastPrompt'.room.kind = "digits" => agent'.current_room = ParseInt(lastPrompt'.room)]_vars

\* a prompt without the visited and the locked vector, and without the current
\* room, reached an agent that has found two rooms and holds flags for them
C26_Witness ==
    /\ lastOp = "partial"
    /\ lastPrompt.visited = Absent /\ lastPrompt.locked = Absent /\ lastPrompt.room = NoInt
    /\ At(agent.room_visited, 1) = 1 /\ At(agent.room_locked, 1) # -1
    /\ agent.current_room # 0

\* ------------------------------------------------------------ the key picked up

\* C27: after the agent has answered GETKEY in a room, the next Execution turn
\* in that room is not answered GETKEY again, also when the has-key flag of
\* the room still reads 1 in the prompt.
C27_GetKeyOnce ==
    [][(/\ lastOp = "select_action" /\ resp.action = GetKey
        /\ lastOp' = "select_action" /\ agent'.has_committed
        /\ agent'.current_room = agent.current_room) =>
          resp'.action # GetKey]_vars

\* ------------------------------------------------------------ discovery and the phase

\* C28: a turn processed while the committed flag is true, the turn whose
\* prompt first sets it included, leaves the adjacency map, the exploration
\* frontier and the exploration visited-set as they were, whatever the visited
\* vector of the prompt shows.
C28_NoDiscoveryOnceCommitted ==
    [][(TurnTaken /\ agent'.has_committed) =>
          /\ agent'.adj = agent.adj
          /\ agent'.obs_frontier = agent.obs_frontier
          /\ agent'.obs_visited = agent.obs_visited]_vars

\* the committed agent holds a visited vector with a room that discovery has
\* never recorded
C28_Witness ==
    /\ lastOp \in {"select_action", "partial"} /\ agent.has_committed
    /\ \E r \in Rooms : At(agent.room_visited, r) = 1 /\ r \notin agent.obs_visited
    /\ agent.obs_frontier # << >>

\* the commands of the two phases
ObsCommands == {"MOVE", "COMMIT"}
ExecCommands == {"MOVE", "GETKEY", "USEKEY", "INSPECT"}

\* C29: a turn processed while the committed flag is false returns MOVE or
\* COMMIT only, and a turn processed while it is true returns MOVE, GETKEY,
\* USEKEY or INSPECT only: COMMIT is never returned once the flag is set.
C29_PhaseAndAction ==
    (lastOp \in {"select_action", "partial"} /\ ~resp.fault) =>
        /\ ~agent.has_committed => resp.action.command \in ObsCommands
        /\ agent.has_committed => resp.action.command \in ExecCommands

\* the committed agent answers USEKEY at a locked room of the graph it found
C29_Witness ==
    /\ lastOp \in {"select_action", "partial"} /\ agent.has_committed
    /\ resp.action = UseKey /\ agent.adj # {} /\ agent.current_room # 0

\* ------------------------------------------------------------ the key before the lock

\* C30: whenever _plan_solution produces a route with a locked room on it while
\* a key room is known and can be reached from room 0, the key room stands on
\* the route before the first locked room of the route.
C30_KeyBeforeLockOnRoute ==
    (/\ lastOp = "plan" /\ call.fn = "plan"
     /\ LockedAt(agent.path_to_exit, agent.room_locked) # {}
     /\ agent.known_key_room # None
     /\ Reachable(agent.adj, 0, agent.known_key_room)) =>
        KeyBeforeLock(agent.path_to_exit, agent.room_locked, agent.known_key_room)

\* ------------------------------------------------------------ self-loops

\* C32: in every reachable state, the state after the first prompt of an
\* episode included, no room a has a in adj[a].
C32_NoSelfLoop == \A d \in agent.adj : d[1] # d[2]

\* ------------------------------------------------------------ progress of the Execution phase

\* the line 0-1-2 with the rooms 3 and 4 hanging from room 2: the exit, locked,
\* at 3 and the key at 4
Fork ==
    [edges |-> {{0, 1}, {1, 2}, {2, 3}, {2, 4}}, exits |-> {3}, locks |-> {3},
     keys |-> {4}, reveal |-> FALSE]

ProgressWorlds == {Line(3), Fork}

InitProgress ==
    /\ world \in ProgressWorlds
    /\ host = HostStart(world)
    /\ agents = [c \in Contexts |-> IF c = Main THEN NewAgent ELSE NoAgent]
    /\ resp = NoResponse
    /\ lastOp = "init"
    /\ lastPrompt = NoPrompt
    /\ fresh = NoAgent
    /\ obs_turns = 0
    /\ solo = NoSolo
    /\ tasks = NoTasks
    /\ call = NoCall

\* the last answer is a MOVE of the Observation phase along an edge the agent
\* has not discovered: the only answer this host may leave without effect
MayFail ==
    /\ host.started /\ host.phase = "Observation"
    /\ "target_room" \in DOMAIN resp.action
    /\ << host.room, resp.action.target_room >> \notin agent.adj

\* a turn of the episode: the host lets the last answer take effect (ok), a
\* MOVE along a discovered edge, GETKEY, USEKEY and COMMIT always
ProgressTurn(ok) ==
    /\ ok \/ MayFail
    /\ SelectTurn(ok, HostWord(ok), FALSE)

NextProgress == \E ok \in BOOLEAN : ProgressTurn(ok)

SpecProgress == InitProgress /\ [][NextProgress]_vars

\* the Execution turns followed from one state
ExecTurns == NumRooms * NumRooms

\* where the turns after the state (host h, agent s, last answer act) lead when
\* every answer takes effect: "arrived" once the host's room is an exit,
\* "cycle" once host, agent and answer are as they were at an earlier turn
\* (the turns are deterministic, so they repeat forever), "open" after n turns
RECURSIVE Outcome(_, _, _, _, _)
Outcome(h, s, act, seen, n) ==
    IF h.room \in world.exits THEN "arrived"
    ELSE IF << h, s, act >> \in seen THEN "cycle"
    ELSE IF n = 0 THEN "open"
    ELSE LET h2 == HostApply(world, h, act, TRUE)
             r == SelectAction(s, HostPrompt(world, h2, h2.phase, FALSE))
         IN  Outcome(h2, r.s, r.act, seen \cup {<< h, s, act >>}, n - 1)

\* C31: with a host that lets every MOVE along a discovered edge, every GETKEY
\* and every USEKEY take effect, an agent in the Execution phase with a
\* non-empty planned route comes to stand in the exit room, also when a room
\* occurs twice on the route: the turns that follow never repeat a state
\* outside the exit.
C31_ReachesExit ==
    (host.phase = "Execution" /\ agent.has_committed /\ agent.path_to_exit # << >>)
        => Outcome(host, agent, resp.action, {}, ExecTurns) = "arrived"

====
